---- MODULE Spec2Model ----
(***************************************************************************)
(* Model of gochef/cache: the driver registry and Cache facade             *)
(* (src/unnamed/part_000) and the in-memory driver (src/mem_cache.go).     *)
(***************************************************************************)
EXTENDS Integers, Sequences, FiniteSets, TLC

(* ---------------------------------------------------------------------- *)
(* Bounds                                                                 *)
(* ---------------------------------------------------------------------- *)

\* width of the machine integer standing for Go's int64
IntBits == 4
\* the clock runs from 1 to MaxNow epoch seconds
MaxNow == 2
\* number of Cache facades a run constructs
MaxCaches == 2
\* number of MemoryCache instances a run allocates
MaxDrivers == 3
\* number of threads calling the facade concurrently
NumThreads == 2
\* depth of calls a thread is inside: a call, and calls made by callbacks
MaxDepth == 2

Keys == {"a", "b"}
Names == {"memory", "redis", "file"}

(* ---------------------------------------------------------------------- *)
(* int64 arithmetic (two's complement, wrapping)                          *)
(* ---------------------------------------------------------------------- *)

MinInt64 == -(2 ^ (IntBits - 1))
MaxInt64 == 2 ^ (IntBits - 1) - 1

\* Go's + on int64: the sum reduced to the type's width
AddInt64(x, y) == ((x + y - MinInt64) % (2 ^ IntBits)) + MinInt64

(* ---------------------------------------------------------------------- *)
(* interface{} values: dynamic type and payload                           *)
(* ---------------------------------------------------------------------- *)

NilVal == [kind |-> "nil", n |-> 0, s |-> ""]
IntVal(i) == [kind |-> "int", n |-> i, s |-> ""]
StrVal(t) == [kind |-> "string", n |-> 0, s |-> t]

\* the values callers store
Values == {NilVal, IntVal(7), StrVal("x")}

\* data.(string): the string and true, or "" and false
AssertString(data) ==
    IF data.kind = "string" THEN <<StrVal(data.s), TRUE>> ELSE <<StrVal(""), FALSE>>

\* data.(int): the int and true, or 0 and false
AssertInt(data) ==
    IF data.kind = "int" THEN <<IntVal(data.n), TRUE>> ELSE <<IntVal(0), FALSE>>

(* ---------------------------------------------------------------------- *)
(* MemoryCache: the store is a Go map from key to *MemoryCacheItem        *)
(* ---------------------------------------------------------------------- *)

MemoryCacheItem(value, expiresAt) == [value |-> value, expiresAt |-> expiresAt]

\* make(map[string]*MemoryCacheItem)
EmptyStore == [k \in {} |-> MemoryCacheItem(NilVal, 0)]

\* mutant of MemGet: presence decided by the value, so a stored nil is a miss
MemGetNilValueMiss(m, key) ==
    IF key \in DOMAIN m /\ m[key].value # NilVal
    THEN <<m[key].value, TRUE>> ELSE <<NilVal, FALSE>>

\* MemoryCache.Get: <<value, found>>
MemGet(m, key) ==
    IF key \in DOMAIN m THEN <<m[key].value, TRUE>> ELSE <<NilVal, FALSE>>

\* mutant of MemPut: an existing entry keeps its expiry, only the value is replaced
MemPutKeepExpiry(m, key, data, duration, t) ==
    LET e == IF key \in DOMAIN m THEN m[key].expiresAt
             ELSE IF duration < 1 THEN 0 ELSE AddInt64(t, duration)
    IN  [k \in DOMAIN m \cup {key} |-> IF k = key THEN MemoryCacheItem(data, e) ELSE m[k]]

\* MemoryCache.Put, with t the clock value time.Now().Unix() reads
MemPut(m, key, data, duration, t) ==
    LET d == MemoryCacheItem(data, IF duration < 1 THEN 0 ELSE AddInt64(t, duration))
    IN  [k \in DOMAIN m \cup {key} |-> IF k = key THEN d ELSE m[k]]

\* mutant of MemRemove: the map is replaced by an empty one, as in Clear
MemRemoveClears(m, key) == EmptyStore

\* MemoryCache.Remove
MemRemove(m, key) == [k \in DOMAIN m \ {key} |-> m[k]]

\* mutant of MemClear: the deleting loop stops after its first key
MemClearOne(m) ==
    IF DOMAIN m = {} THEN m
    ELSE LET first == CHOOSE k \in DOMAIN m : TRUE
         IN  [k \in DOMAIN m \ {first} |-> m[k]]

\* mutant of MemClear: only the entries that carry an expiry are deleted
MemClearKeepsForever(m) ==
    [k \in {x \in DOMAIN m : m[x].expiresAt = 0} |-> m[k]]

\* MemoryCache.Clear
MemClear(m) == EmptyStore

(* ---------------------------------------------------------------------- *)
(* Cache facade: the typed accessors over the driver's Get                *)
(* ---------------------------------------------------------------------- *)

\* Cache.Get
CacheGet(m, key) == MemGet(m, key)

\* mutant of CacheGetString: the found flag of Get is returned, not the assertion's
CacheGetStringKeepsOk(m, key) ==
    LET r == CacheGet(m, key)
    IN  IF ~r[2] THEN <<StrVal(""), FALSE>> ELSE <<AssertString(r[1])[1], r[2]>>

\* Cache.GetString
CacheGetString(m, key) ==
    LET r == CacheGet(m, key)
    IN  IF ~r[2] THEN <<StrVal(""), FALSE>> ELSE AssertString(r[1])

\* Cache.GetInt
CacheGetInt(m, key) ==
    LET r == CacheGet(m, key)
    IN  IF ~r[2] THEN <<IntVal(0), FALSE>> ELSE AssertInt(r[1])

(* ---------------------------------------------------------------------- *)
(* State                                                                  *)
(* ---------------------------------------------------------------------- *)

VARIABLES
    drivers,   \* the package-level registry: a map from name to driver instance
    store,     \* store[d]: the map of MemoryCache instance d
    caches,    \* the Cache facades constructed so far: [config, driver]
    now,       \* time.Now().Unix()
    last,      \* the call that ran last: its arguments and what it returned
    stack,     \* stack[t]: the calls thread t is inside, the innermost last
    lock,      \* the thread inside m.Lock() .. m.Unlock(), or NoThread
    crashed    \* the runtime has thrown a fatal error: the process is gone

\* the state of the threads
tvars == <<stack, lock, crashed>>

vars == <<drivers, store, caches, now, last, tvars>>

\* a nil Driver
NilDriver == 0
\* the instance the package registers under "memory"
MemoryDriver == 1

\* the durations callers pass to Put and Remember
Durations == {-1, 1, MaxInt64}

NoPanic == ""

Threads == 1 .. NumThreads
\* the value of lock when no thread holds the mutex
NoThread == 0

\* hit: whether the key (for Clear: any key) was in the store when the call began
Call(op, driver, key, val, ok, hit, duration, calls, err) ==
    [op |-> op, driver |-> driver, key |-> key, val |-> val, ok |-> ok, hit |-> hit,
     duration |-> duration, calls |-> calls, err |-> err]

Init ==
    /\ drivers = [name \in {"memory"} |-> MemoryDriver]
    /\ store = [d \in {MemoryDriver} |-> EmptyStore]
    /\ caches = <<>>
    /\ now = 1
    /\ last = Call("init", NilDriver, "", NilVal, FALSE, FALSE, 0, 0, NoPanic)
    /\ stack = [t \in Threads |-> <<>>]
    /\ lock = NoThread
    /\ crashed = FALSE

\* mutant of WithStore: one map shared by every MemoryCache instance
WithStoreShared(d, m) == [x \in DOMAIN store |-> m]

\* the driver's store with the map of instance d replaced by m
WithStore(d, m) == [store EXCEPT ![d] = m]

(* ---------------------------------------------------------------------- *)
(* Registry and construction                                              *)
(* ---------------------------------------------------------------------- *)

\* the host calls NewMemoryCache(): a fresh instance with an empty map
NewMemoryCache ==
    /\ Cardinality(DOMAIN store) < MaxDrivers
    /\ LET d == Cardinality(DOMAIN store) + 1
       IN  /\ store' = [x \in DOMAIN store \cup {d} |->
                           IF x = d THEN EmptyStore ELSE store[x]]
           /\ last' = Call("NewMemoryCache", d, "", NilVal, FALSE, FALSE, 0, 0, NoPanic)
    /\ UNCHANGED <<drivers, caches, now, tvars>>

\* mutant of RegisterDriver: a name already registered is overwritten
RegisterDriverOverwrite(name, driver) ==
    /\ IF driver = NilDriver
       THEN /\ last' = Call("RegisterDriver", driver, name, NilVal, FALSE, FALSE, 0, 0,
                            "cache: driver is nil")
            /\ UNCHANGED drivers
       ELSE /\ drivers' = [n \in DOMAIN drivers \cup {name} |->
                              IF n = name THEN driver ELSE drivers[n]]
            /\ last' = Call("RegisterDriver", driver, name, NilVal, TRUE, FALSE, 0, 0,
                            NoPanic)
    /\ UNCHANGED <<store, caches, now, tvars>>

\* RegisterDriver(name, driver)
RegisterDriver(name, driver) ==
    /\ IF driver = NilDriver
       THEN /\ last' = Call("RegisterDriver", driver, name, NilVal, FALSE, FALSE, 0, 0,
                            "cache: driver is nil")
            /\ UNCHANGED drivers
       ELSE IF name \in DOMAIN drivers
       THEN /\ last' = Call("RegisterDriver", driver, name, NilVal, FALSE, FALSE, 0, 0,
                            "cache: driver is already registered")
            /\ UNCHANGED drivers
       ELSE /\ drivers' = [n \in DOMAIN drivers \cup {name} |->
                              IF n = name THEN driver ELSE drivers[n]]
            /\ last' = Call("RegisterDriver", driver, name, NilVal, TRUE, FALSE, 0, 0,
                            NoPanic)
    /\ UNCHANGED <<store, caches, now, tvars>>

\* mutant of New: an unregistered name falls back to the "memory" driver
NewWithDefault(cfg) ==
    /\ Len(caches) < MaxCaches
    /\ LET driver == IF cfg.Driver \in DOMAIN drivers THEN drivers[cfg.Driver]
                     ELSE drivers["memory"]
       IN  /\ caches' = Append(caches, [config |-> cfg, driver |-> driver])
           /\ last' = Call("New", driver, cfg.Driver, NilVal, TRUE, FALSE, 0, 0, NoPanic)
    /\ UNCHANGED <<drivers, store, now, tvars>>

\* New(cfg)
New(cfg) ==
    /\ Len(caches) < MaxCaches
    /\ IF cfg.Driver \notin DOMAIN drivers
       THEN /\ last' = Call("New", NilDriver, cfg.Driver, NilVal, FALSE, FALSE, 0, 0,
                            "cache: cache provider is not registered")
            /\ UNCHANGED caches
       ELSE /\ caches' = Append(caches, [config |-> cfg, driver |-> drivers[cfg.Driver]])
            /\ last' = Call("New", drivers[cfg.Driver], cfg.Driver, NilVal, TRUE, FALSE,
                            0, 0, NoPanic)
    /\ UNCHANGED <<drivers, store, now, tvars>>

(* ---------------------------------------------------------------------- *)
(* Cache operations, each run to completion on facade c                   *)
(* ---------------------------------------------------------------------- *)

\* mutant of Get: an entry whose expiry has been reached is reported as a miss
GetEnforcingExpiry(c, key) ==
    LET d == caches[c].driver
        r == CacheGet(store[d], key)
        live == r[2] /\ (store[d][key].expiresAt = 0 \/ store[d][key].expiresAt > now)
    IN  /\ last' = Call("Get", d, key, IF live THEN r[1] ELSE NilVal, live, r[2], 0, 0,
                        NoPanic)
        /\ UNCHANGED <<drivers, store, caches, now, tvars>>

\* c.Get(key)
Get(c, key) ==
    LET d == caches[c].driver
        r == CacheGet(store[d], key)
    IN  /\ last' = Call("Get", d, key, r[1], r[2], r[2], 0, 0, NoPanic)
        /\ UNCHANGED <<drivers, store, caches, now, tvars>>

\* c.GetString(key)
GetString(c, key) ==
    LET d == caches[c].driver
        r == CacheGetString(store[d], key)
    IN  /\ last' = Call("GetString", d, key, r[1], r[2], CacheGet(store[d], key)[2], 0, 0,
                        NoPanic)
        /\ UNCHANGED <<drivers, store, caches, now, tvars>>

\* c.GetInt(key)
GetInt(c, key) ==
    LET d == caches[c].driver
        r == CacheGetInt(store[d], key)
    IN  /\ last' = Call("GetInt", d, key, r[1], r[2], CacheGet(store[d], key)[2], 0, 0,
                        NoPanic)
        /\ UNCHANGED <<drivers, store, caches, now, tvars>>

\* c.Put(key, data, duration)
Put(c, key, data, duration) ==
    LET d == caches[c].driver
    IN  /\ store' = WithStore(d, MemPut(store[d], key, data, duration, now))
        /\ last' = Call("Put", d, key, data, FALSE, key \in DOMAIN store[d], duration, 0,
                        NoPanic)
        /\ UNCHANGED <<drivers, caches, now, tvars>>

\* c.PutForever(key, data)
PutForever(c, key, data) ==
    LET d == caches[c].driver
    IN  /\ store' = WithStore(d, MemPut(store[d], key, data, 0, now))
        /\ last' = Call("PutForever", d, key, data, FALSE, key \in DOMAIN store[d], 0, 0,
                        NoPanic)
        /\ UNCHANGED <<drivers, caches, now, tvars>>

\* c.Remove(key)
Remove(c, key) ==
    LET d == caches[c].driver
    IN  /\ store' = WithStore(d, MemRemove(store[d], key))
        /\ last' = Call("Remove", d, key, NilVal, FALSE, key \in DOMAIN store[d], 0, 0,
                        NoPanic)
        /\ UNCHANGED <<drivers, caches, now, tvars>>

\* c.Pull(key)
Pull(c, key) ==
    LET d == caches[c].driver
        r == MemGet(store[d], key)
    IN  /\ store' = WithStore(d, MemRemove(store[d], key))
        /\ last' = Call("Pull", d, key, r[1], r[2], r[2], 0, 0, NoPanic)
        /\ UNCHANGED <<drivers, caches, now, tvars>>

\* mutant of PullString: the key is removed only when a string was obtained
PullStringIfFound(c, key) ==
    LET d == caches[c].driver
        r == CacheGetString(store[d], key)
    IN  /\ store' = WithStore(d, IF r[2] THEN MemRemove(store[d], key) ELSE store[d])
        /\ last' = Call("PullString", d, key, r[1], r[2], CacheGet(store[d], key)[2], 0, 0,
                        NoPanic)
        /\ UNCHANGED <<drivers, caches, now, tvars>>

\* c.PullString(key)
PullString(c, key) ==
    LET d == caches[c].driver
        r == CacheGetString(store[d], key)
    IN  /\ store' = WithStore(d, MemRemove(store[d], key))
        /\ last' = Call("PullString", d, key, r[1], r[2], CacheGet(store[d], key)[2], 0, 0,
                        NoPanic)
        /\ UNCHANGED <<drivers, caches, now, tvars>>

\* c.PullInt(key)
PullInt(c, key) ==
    LET d == caches[c].driver
        r == CacheGetInt(store[d], key)
    IN  /\ store' = WithStore(d, MemRemove(store[d], key))
        /\ last' = Call("PullInt", d, key, r[1], r[2], CacheGet(store[d], key)[2], 0, 0,
                        NoPanic)
        /\ UNCHANGED <<drivers, caches, now, tvars>>

\* mutant of CacheRemember: cb is invoked and its result stored on a hit too
CacheRememberAlways(m, key, duration, computed, t) ==
    <<computed, 1, MemPut(m, key, computed, duration, t)>>

\* mutant of CacheRemember: a hit is decided by data != nil, not by the found flag
CacheRememberNilRecomputes(m, key, duration, computed, t) ==
    LET r == CacheGet(m, key)
    IN  IF r[2] /\ r[1] # NilVal THEN <<r[1], 0, m>>
        ELSE <<computed, 1, MemPut(m, key, computed, duration, t)>>

\* the body of c.Remember(key, duration, cb), cb returning computed:
\* <<value returned, invocations of cb, the map afterwards>>
CacheRemember(m, key, duration, computed, t) ==
    LET r == CacheGet(m, key)
    IN  IF r[2] THEN <<r[1], 0, m>>
        ELSE <<computed, 1, MemPut(m, key, computed, duration, t)>>

\* c.Remember(key, duration, cb)
Remember(c, key, duration, computed) ==
    LET d == caches[c].driver
        r == CacheRemember(store[d], key, duration, computed, now)
    IN  /\ store' = WithStore(d, r[3])
        /\ last' = Call("Remember", d, key, r[1], FALSE, CacheGet(store[d], key)[2], duration, r[2],
                        NoPanic)
        /\ UNCHANGED <<drivers, caches, now, tvars>>

\* c.RememberForever(key, cb)
RememberForever(c, key, computed) ==
    LET d == caches[c].driver
        r == CacheRemember(store[d], key, 0, computed, now)
    IN  /\ store' = WithStore(d, r[3])
        /\ last' = Call("RememberForever", d, key, r[1], FALSE, CacheGet(store[d], key)[2], 0,
                        r[2], NoPanic)
        /\ UNCHANGED <<drivers, caches, now, tvars>>

\* c.Clear()
Clear(c) ==
    LET d == caches[c].driver
    IN  /\ store' = WithStore(d, MemClear(store[d]))
        /\ last' = Call("Clear", d, "", NilVal, FALSE, DOMAIN store[d] # {}, 0, 0, NoPanic)
        /\ UNCHANGED <<drivers, caches, now, tvars>>

\* a second passes on the wall clock
Tick ==
    /\ now < MaxNow
    /\ now' = now + 1
    /\ last' = Call("Tick", NilDriver, "", NilVal, FALSE, FALSE, 0, 0, NoPanic)
    /\ UNCHANGED <<drivers, store, caches, tvars>>

(* ---------------------------------------------------------------------- *)
(* Threads: the calls of a facade on the "memory" driver, one step of one  *)
(* thread at a time                                                        *)
(* ---------------------------------------------------------------------- *)

\* the driver the threads' facade holds, and its map
TheDriver == caches[1].driver
TheStore == store[TheDriver]

\* the calls threads make
ThreadOps == {"Get", "Put", "Remove", "Clear", "Pull", "Remember"}
\* the key and the values concurrent calls use
ThreadKeys == {"a"}
ThreadValues == {IntVal(7), StrVal("x")}

\* a call a thread is inside. data: the value to store (Remember: what cb
\* returned); t0: the clock the item was built at; val, ok: what the call's Get
\* read; raced: another thread held the lock when it read. Four fields
\* record history and steer nothing: calls counts the returns of cb; inner is
\* the value a call made by cb has stored under this call's key (NilVal:
\* none); dup says that the Get of a Pull returned a value that another
\* thread's Pull had got and not yet removed; lost says that the Remove of a
\* Pull deleted an entry other than the one its Get returned
Frame(op, key, data, pc) ==
    [op |-> op, key |-> key, data |-> data, t0 |-> now, pc |-> pc,
     val |-> NilVal, ok |-> FALSE, raced |-> FALSE,
     calls |-> 0, inner |-> NilVal, dup |-> FALSE, lost |-> FALSE]

Depth(t) == Len(stack[t])
Top(t) == stack[t][Depth(t)]
AtPc(t, pc) == Depth(t) > 0 /\ Top(t).pc = pc
SetTop(t, f) == [stack EXCEPT ![t] = [@ EXCEPT ![Len(@)] = f]]
Pop(t) == [stack EXCEPT ![t] = SubSeq(@, 1, Len(@) - 1)]

\* where a call starts: Get, Pull and Remember read first, the others lock
FirstPc(op) == IF op \in {"Get", "Pull", "Remember"} THEN "get" ELSE "lock"

\* only Put takes a value
ArgOf(op, data) == IF op = "Put" THEN data ELSE NilVal

\* thread t calls op on the facade
BeginCall(t, op, key, data) ==
    /\ ~crashed
    /\ Depth(t) = 0
    /\ stack' = [stack EXCEPT ![t] = <<Frame(op, key, ArgOf(op, data), FirstPc(op))>>]
    /\ UNCHANGED <<drivers, store, caches, now, last, lock, crashed>>

\* the map once the mutation of frame f is done: m.store[key] = d,
\* delete(m.store, key) or m.store = make(...)
Written(f, m) ==
    IF f.op \in {"Put", "Remember"} THEN MemPut(m, f.key, f.data, 0, f.t0)
    ELSE IF f.op \in {"Remove", "Pull"} THEN MemRemove(m, f.key)
    ELSE MemClear(m)

\* the threads other than t that hold the lock and have yet to finish their
\* mutation
Writers(t) == {w \in Threads \ {t} : AtPc(w, "write")}

\* what an unlocked read of key can see: the map as it is or, while a
\* mutation is under way, the map as the mutation leaves it
ReadOutcomes(t, key) ==
    {MemGet(TheStore, key)} \cup {MemGet(Written(Top(w), TheStore), key) : w \in Writers(t)}

\* where a call goes once its Get has returned <<val, ok>>
AfterGet(op, ok) ==
    IF op = "Get" THEN "ret"
    ELSE IF op = "Pull" THEN "lock"
    ELSE IF ok THEN "ret" ELSE "cb"

\* the frame of t's call once its Get has returned r = <<val, ok>>
GotFrame(t, r) ==
    [Top(t) EXCEPT !.val = r[1], !.ok = r[2],
                   !.raced = lock \notin {NoThread, t},
                   !.dup = /\ Top(t).op = "Pull" /\ r[2]
                           /\ \E u \in Threads \ {t} :
                                 /\ Depth(u) > 0
                                 /\ Top(u).op = "Pull" /\ Top(u).key = Top(t).key
                                 /\ Top(u).pc \in {"lock", "write"}
                                 /\ Top(u).ok /\ Top(u).val = r[1],
                   !.pc = AfterGet(Top(t).op, r[2])]

\* mutant of Read: Get takes the read lock, so it waits for a writer
ReadRLocked(t) ==
    /\ ~crashed
    /\ AtPc(t, "get")
    /\ lock = NoThread
    /\ \E r \in ReadOutcomes(t, Top(t).key) :
          stack' = SetTop(t, GotFrame(t, r))
    /\ UNCHANGED <<drivers, store, caches, now, last, lock, crashed>>

\* mutant of Read: a Remember that misses takes the lock at its Get and keeps
\* it while cb runs
ReadKeepsLock(t) ==
    /\ ~crashed
    /\ AtPc(t, "get")
    /\ \E r \in ReadOutcomes(t, Top(t).key) :
          /\ stack' = SetTop(t, GotFrame(t, r))
          /\ lock' = IF AfterGet(Top(t).op, r[2]) = "cb" THEN t ELSE lock
    /\ UNCHANGED <<drivers, store, caches, now, last, crashed>>

\* mutant of Read: Pull is atomic, a Get waiting while another thread is
\* between the Get and the Remove of a Pull of the key
ReadWaitsForPull(t) ==
    /\ ~crashed
    /\ AtPc(t, "get")
    /\ ~\E u \in Threads \ {t} :
          /\ Depth(u) > 0 /\ Top(u).op = "Pull" /\ Top(u).key = Top(t).key
          /\ Top(u).pc \in {"lock", "write", "unlock"}
    /\ \E r \in ReadOutcomes(t, Top(t).key) :
          stack' = SetTop(t, GotFrame(t, r))
    /\ UNCHANGED <<drivers, store, caches, now, last, lock, crashed>>

\* m.store[key] in MemoryCache.Get, under no lock
Read(t) ==
    /\ ~crashed
    /\ AtPc(t, "get")
    /\ \E r \in ReadOutcomes(t, Top(t).key) :
          stack' = SetTop(t, GotFrame(t, r))
    /\ UNCHANGED <<drivers, store, caches, now, last, lock, crashed>>

\* the runtime finds the map read while another thread writes it:
\* "fatal error: concurrent map read and map write"
Throw(t) ==
    /\ ~crashed
    /\ AtPc(t, "get")
    /\ \E w \in Writers(t) :
          \/ Top(w).op \in {"Put", "Remember"}
          \/ Top(w).op \in {"Remove", "Pull"} /\ DOMAIN TheStore # {}
    /\ crashed' = TRUE
    /\ UNCHANGED <<drivers, store, caches, now, last, stack, lock>>

\* mutant of Lock: the mutex is taken without waiting for its holder
LockNoWait(t) ==
    /\ ~crashed
    /\ AtPc(t, "lock")
    /\ lock' = t
    /\ stack' = SetTop(t, [Top(t) EXCEPT !.pc = "write"])
    /\ UNCHANGED <<drivers, store, caches, now, last, crashed>>

\* m.Lock()
Lock(t) ==
    /\ ~crashed
    /\ AtPc(t, "lock")
    /\ lock = NoThread
    /\ lock' = t
    /\ stack' = SetTop(t, [Top(t) EXCEPT !.pc = "write"])
    /\ UNCHANGED <<drivers, store, caches, now, last, crashed>>

\* the mutation between m.Lock() and m.Unlock()
Write(t) ==
    /\ ~crashed
    /\ AtPc(t, "write")
    /\ store' = WithStore(TheDriver, Written(Top(t), TheStore))
    /\ stack' = [stack EXCEPT ![t] = [i \in 1 .. Depth(t) |->
          IF i = Depth(t)
          THEN [Top(t) EXCEPT !.pc = "unlock",
                              !.lost = /\ Top(t).op = "Pull"
                                       /\ Top(t).key \in DOMAIN TheStore
                                       /\ MemGet(TheStore, Top(t).key) # <<Top(t).val, Top(t).ok>>]
          ELSE IF Top(t).op \in {"Put", "Remember"} /\ stack[t][i].key = Top(t).key
               THEN [stack[t][i] EXCEPT !.inner = Top(t).data]
               ELSE stack[t][i]]]
    /\ UNCHANGED <<drivers, caches, now, last, lock, crashed>>

\* m.Unlock(), and the return of Put, Remove and Clear
Unlock(t) ==
    /\ ~crashed
    /\ AtPc(t, "unlock")
    /\ lock' = NoThread
    /\ stack' = IF Top(t).op \in {"Pull", "Remember"}
                THEN SetTop(t, [Top(t) EXCEPT !.pc = "ret"])
                ELSE Pop(t)
    /\ UNCHANGED <<drivers, store, caches, now, last, crashed>>

\* Get, Pull and Remember return what they hold
Return(t) ==
    /\ ~crashed
    /\ AtPc(t, "ret")
    /\ stack' = Pop(t)
    /\ UNCHANGED <<drivers, store, caches, now, last, lock, crashed>>

\* mutant of CbReturn: concurrent Remember calls on a key are de-duplicated,
\* a callback waiting while another thread's computed value for the key is
\* on its way into the store
CbReturnSingleFlight(t, computed) ==
    /\ ~crashed
    /\ AtPc(t, "cb")
    /\ ~\E u \in Threads \ {t} :
          /\ Depth(u) > 0 /\ Top(u).op = "Remember" /\ Top(u).key = Top(t).key
          /\ Top(u).pc \in {"lock", "write", "unlock"}
    /\ stack' = SetTop(t, [Top(t) EXCEPT !.data = computed, !.val = computed,
                                        !.calls = @ + 1,
                                        !.t0 = now, !.pc = "lock"])
    /\ UNCHANGED <<drivers, store, caches, now, last, lock, crashed>>

\* cb() returns computed; Remember goes on to c.Put(key, data, duration)
CbReturn(t, computed) ==
    /\ ~crashed
    /\ AtPc(t, "cb")
    /\ stack' = SetTop(t, [Top(t) EXCEPT !.data = computed, !.val = computed,
                                        !.calls = @ + 1,
                                        !.t0 = now, !.pc = "lock"])
    /\ UNCHANGED <<drivers, store, caches, now, last, lock, crashed>>

\* cb() calls op on the same cache
CbCall(t, op, key, data) ==
    /\ ~crashed
    /\ AtPc(t, "cb")
    /\ Depth(t) < MaxDepth
    /\ stack' = [stack EXCEPT ![t] =
                    Append(@, Frame(op, key, ArgOf(op, data), FirstPc(op)))]
    /\ UNCHANGED <<drivers, store, caches, now, last, lock, crashed>>

(* ---------------------------------------------------------------------- *)
(* Specifications                                                         *)
(* ---------------------------------------------------------------------- *)

Configs == [Driver : Names]

\* the facade and the in-memory driver, over the registry as the package
\* initialises it
Next ==
    \/ \E cfg \in Configs : New(cfg)
    \/ \E c \in 1 .. Len(caches), key \in Keys : Get(c, key)
    \/ \E c \in 1 .. Len(caches), key \in Keys : GetString(c, key)
    \/ \E c \in 1 .. Len(caches), key \in Keys : GetInt(c, key)
    \/ \E c \in 1 .. Len(caches), key \in Keys, data \in Values, duration \in Durations :
          Put(c, key, data, duration)
    \/ \E c \in 1 .. Len(caches), key \in Keys, data \in Values : PutForever(c, key, data)
    \/ \E c \in 1 .. Len(caches), key \in Keys : Remove(c, key)
    \/ \E c \in 1 .. Len(caches), key \in Keys : Pull(c, key)
    \/ \E c \in 1 .. Len(caches), key \in Keys : PullString(c, key)
    \/ \E c \in 1 .. Len(caches), key \in Keys : PullInt(c, key)
    \/ \E c \in 1 .. Len(caches), key \in Keys, duration \in Durations, computed \in Values :
          Remember(c, key, duration, computed)
    \/ \E c \in 1 .. Len(caches), key \in Keys, computed \in Values :
          RememberForever(c, key, computed)
    \/ \E c \in 1 .. Len(caches) : Clear(c)
    \/ Tick

Spec == Init /\ [][Next]_vars

\* registration and construction: the host allocates drivers, registers them
\* and builds facades
NextRegistry ==
    \/ NewMemoryCache
    \/ \E name \in Names, driver \in {NilDriver} \cup DOMAIN store :
          RegisterDriver(name, driver)
    \/ \E cfg \in Configs : New(cfg)

SpecRegistry == Init /\ [][NextRegistry]_vars

\* the key and the values the calls of NextShared use
SharedKeys == {"a"}
SharedValues == {IntVal(7), StrVal("x")}

\* facades over drivers registered at run time: registration, construction
\* and the calls that show whose store a facade reads and writes
NextShared ==
    \/ NewMemoryCache
    \/ \E name \in Names, driver \in {NilDriver} \cup DOMAIN store :
          RegisterDriver(name, driver)
    \/ \E cfg \in Configs : New(cfg)
    \/ \E c \in 1 .. Len(caches), key \in SharedKeys, data \in SharedValues :
          PutForever(c, key, data)
    \/ \E c \in 1 .. Len(caches), key \in SharedKeys : Get(c, key)
    \/ \E c \in 1 .. Len(caches), key \in SharedKeys : Remove(c, key)
    \/ \E c \in 1 .. Len(caches), key \in SharedKeys : Pull(c, key)
    \/ \E c \in 1 .. Len(caches) : Clear(c)

SpecShared == Init /\ [][NextShared]_vars

\* the host has built one facade on "memory"; then its threads run
InitThreads ==
    /\ drivers = [name \in {"memory"} |-> MemoryDriver]
    /\ store = [d \in {MemoryDriver} |-> EmptyStore]
    /\ caches = <<[config |-> [Driver |-> "memory"], driver |-> MemoryDriver]>>
    /\ now = 1
    /\ last = Call("New", MemoryDriver, "memory", NilVal, TRUE, FALSE, 0, 0, NoPanic)
    /\ stack = [t \in Threads |-> <<>>]
    /\ lock = NoThread
    /\ crashed = FALSE

\* concurrent calls, their callbacks returning without calling the cache
NextThreads ==
    \/ \E t \in Threads, op \in ThreadOps, key \in ThreadKeys, data \in ThreadValues :
          BeginCall(t, op, key, data)
    \/ \E t \in Threads : Read(t)
    \/ \E t \in Threads : Throw(t)
    \/ \E t \in Threads : Lock(t)
    \/ \E t \in Threads : Write(t)
    \/ \E t \in Threads : Unlock(t)
    \/ \E t \in Threads : Return(t)
    \/ \E t \in Threads, computed \in ThreadValues : CbReturn(t, computed)

SpecThreads == InitThreads /\ [][NextThreads]_vars

\* one thread whose callbacks call the cache
NextCallback ==
    \/ \E op \in ThreadOps, key \in Keys, data \in ThreadValues : BeginCall(1, op, key, data)
    \/ Read(1)
    \/ Lock(1)
    \/ Write(1)
    \/ Unlock(1)
    \/ Return(1)
    \/ \E computed \in ThreadValues : CbReturn(1, computed)
    \/ \E op \in ThreadOps, key \in Keys, data \in ThreadValues : CbCall(1, op, key, data)

SpecCallback == InitThreads /\ [][NextCallback]_vars

\* the state after one Put("a", 7, 0) on a new cache
PulledValue == IntVal(7)
LateValues == {StrVal("x")}

InitPull ==
    /\ drivers = [name \in {"memory"} |-> MemoryDriver]
    /\ store = [d \in {MemoryDriver} |-> MemPut(EmptyStore, "a", PulledValue, 0, 1)]
    /\ caches = <<[config |-> [Driver |-> "memory"], driver |-> MemoryDriver]>>
    /\ now = 1
    /\ last = Call("Put", MemoryDriver, "a", PulledValue, FALSE, FALSE, 0, 0, NoPanic)
    /\ stack = [t \in Threads |-> <<>>]
    /\ lock = NoThread
    /\ crashed = FALSE

\* concurrent Pull and Put calls on the key, the Puts storing other values
NextPull ==
    \/ \E t \in Threads, op \in {"Pull", "Put"}, data \in LateValues :
          BeginCall(t, op, "a", data)
    \/ \E t \in Threads : Read(t)
    \/ \E t \in Threads : Throw(t)
    \/ \E t \in Threads : Lock(t)
    \/ \E t \in Threads : Write(t)
    \/ \E t \in Threads : Unlock(t)
    \/ \E t \in Threads : Return(t)

SpecPull == InitPull /\ [][NextPull]_vars

(* ---------------------------------------------------------------------- *)
(* Properties                                                             *)
(* ---------------------------------------------------------------------- *)

\* the store of driver d holds value v under key k with no expiry
HoldsForever(d, k, v) ==
    /\ k \in DOMAIN store[d]
    /\ store[d][k] = MemoryCacheItem(v, 0)

\* the call recorded in rec deletes or overwrites key k of driver d
EndsEntry(rec, d, k) ==
    /\ rec.driver = d
    /\ \/ rec.op = "Clear"
       \/ /\ rec.key = k
          /\ rec.op \in {"Remove", "Pull", "PullString", "PullInt", "Put", "PutForever"}

\* C1: after Put(k, v, ttl) with ttl <= 0, or PutForever(k, v), Get(k) is
\* (v, true), and it stays (v, true) across every step that is not a
\* Remove(k), Clear(), Pull-variant on k or Put on k of that driver: a Get of
\* k that runs in such a step returns (v, true).
C1_ForeverUntilRemoved ==
    [][\A d \in DOMAIN store, k \in Keys, v \in Values :
          /\ ( /\ last'.op \in {"Put", "PutForever"}
               /\ last'.driver = d /\ last'.key = k /\ last'.val = v
               /\ last'.duration <= 0 )
                => CacheGet(store'[d], k) = <<v, TRUE>>
          /\ ( HoldsForever(d, k, v) /\ ~EndsEntry(last', d, k) )
                => /\ HoldsForever(d, k, v)'
                   /\ CacheGet(store'[d], k) = <<v, TRUE>>
                   /\ ( last'.op = "Get" /\ last'.driver = d /\ last'.key = k )
                         => ( last'.val = v /\ last'.ok )
      ]_vars

\* C1 witness: a Get of "a" returns the value stored forever, after time has
\* passed and while the other key holds an entry too
C1_Witness ==
    /\ last.op = "Get" /\ last.key = "a" /\ last.ok /\ last.val = IntVal(7)
    /\ HoldsForever(MemoryDriver, "a", IntVal(7))
    /\ "b" \in DOMAIN store[MemoryDriver]
    /\ now = MaxNow

PullOps == {"Pull", "PullString", "PullInt"}
RememberOps == {"Remember", "RememberForever"}
WriteOps == {"Put", "PutForever"} \cup RememberOps

\* C2: when Pull(k), PullString(k) or PullInt(k) has run, k is absent from the
\* driver's store and Get(k) is (nil, false): whether k was present or absent
\* before, and whether or not the typed extraction succeeded.
C2_PullLeavesAbsent ==
    last.op \in PullOps
        => /\ last.key \notin DOMAIN store[last.driver]
           /\ CacheGet(store[last.driver], last.key) = <<NilVal, FALSE>>

\* C2 witness: PullString ran on a key that held a value that is no string,
\* returned found=false, and the key is gone
C2_Witness ==
    /\ last.op = "PullString" /\ last.key = "a"
    /\ last.hit /\ ~last.ok
    /\ "a" \notin DOMAIN store[MemoryDriver]
    /\ "b" \in DOMAIN store[MemoryDriver]

\* C3: GetString(k) / GetInt(k) on a key that holds a value of another type
\* returns the zero value and found=false, which is what it returns for an
\* absent key, and leaves the store as it was: Get(k) still returns the entry.
C3_TypedMismatchIsMiss ==
    [][\A k \in Keys :
          LET d == last'.driver
          IN  /\ ( /\ last'.op = "GetString" /\ last'.key = k
                   /\ k \in DOMAIN store[d]
                   /\ store[d][k].value.kind # "string" )
                    => /\ last'.val = StrVal("") /\ ~last'.ok
                       /\ <<last'.val, last'.ok>> = CacheGetString(EmptyStore, k)
                       /\ store' = store
                       /\ CacheGet(store'[d], k) = <<store[d][k].value, TRUE>>
              /\ ( /\ last'.op = "GetInt" /\ last'.key = k
                   /\ k \in DOMAIN store[d]
                   /\ store[d][k].value.kind # "int" )
                    => /\ last'.val = IntVal(0) /\ ~last'.ok
                       /\ <<last'.val, last'.ok>> = CacheGetInt(EmptyStore, k)
                       /\ store' = store
                       /\ CacheGet(store'[d], k) = <<store[d][k].value, TRUE>>
      ]_vars

\* C3 witness: GetString ran on a key holding an int, reported a miss, and the
\* int is still stored
C3_Witness ==
    /\ last.op = "GetString" /\ last.key = "a" /\ last.hit /\ ~last.ok
    /\ "a" \in DOMAIN store[MemoryDriver]
    /\ store[MemoryDriver]["a"].value = IntVal(7)

\* C4: Remember(k, d, compute), run to completion: when k is present it
\* returns the stored value, invokes compute zero times and leaves the store
\* as it was; when k is absent it invokes compute once, stores the result
\* under k, returns it, and Get(k) afterwards is (that value, true).
C4_RememberComputesOnMiss ==
    [][last'.op \in RememberOps =>
          LET d == last'.driver
              k == last'.key
          IN  IF k \in DOMAIN store[d]
              THEN /\ last'.val = store[d][k].value
                   /\ last'.calls = 0
                   /\ store' = store
              ELSE /\ last'.calls = 1
                   /\ k \in DOMAIN store'[d]
                   /\ store'[d][k].value = last'.val
                   /\ CacheGet(store'[d], k) = <<last'.val, TRUE>>
                   /\ \A o \in DOMAIN store[d] :
                          o \in DOMAIN store'[d] /\ store'[d][o] = store[d][o]
      ]_vars

\* C4 witness: a Remember found its key present and returned the stored value
\* without computing, the store holding what an earlier miss stored
C4_Witness ==
    /\ last.op = "Remember" /\ last.key = "a" /\ last.hit /\ last.calls = 0
    /\ last.val = StrVal("x")
    /\ "a" \in DOMAIN store[MemoryDriver]
    /\ store[MemoryDriver]["a"].expiresAt > 0

\* C5: RegisterDriver(name, driver) panics when driver is nil or name is
\* registered already ("memory" included), and the registry is then unchanged;
\* otherwise it succeeds, name resolves to driver, and every other name
\* resolves to what it resolved to before. No step changes or removes a
\* registration.
C5_RegisterDriver ==
    [][/\ last'.op = "RegisterDriver" =>
            IF last'.driver = NilDriver \/ last'.key \in DOMAIN drivers
            THEN /\ last'.err # NoPanic
                 /\ drivers' = drivers
            ELSE /\ last'.err = NoPanic
                 /\ DOMAIN drivers' = DOMAIN drivers \cup {last'.key}
                 /\ drivers'[last'.key] = last'.driver
       /\ \A n \in DOMAIN drivers : n \in DOMAIN drivers' /\ drivers'[n] = drivers[n]
       /\ drivers'["memory"] = MemoryDriver
      ]_vars

\* C5 witness: two drivers are registered under two new names, each resolving
\* to its own instance, and a further registration under a taken name panicked
C5_Witness ==
    /\ DOMAIN drivers = Names
    /\ drivers["redis"] # drivers["file"]
    /\ drivers["redis"] # MemoryDriver /\ drivers["file"] # MemoryDriver
    /\ last.op = "RegisterDriver" /\ last.key = "memory" /\ last.driver # NilDriver
    /\ last.err # NoPanic

\* C6: New(cfg) panics and builds no facade when cfg.Driver is not registered;
\* when it succeeds the new facade's driver is the instance registered under
\* cfg.Driver; and every facade keeps its config and driver, which stays the
\* instance its name resolves to.
C6_NewResolvesDriver ==
    [][/\ last'.op = "New" =>
            IF last'.key \notin DOMAIN drivers
            THEN /\ last'.err # NoPanic
                 /\ caches' = caches
            ELSE /\ last'.err = NoPanic
                 /\ caches' = Append(caches, [config |-> [Driver |-> last'.key],
                                              driver |-> drivers[last'.key]])
       /\ Len(caches') >= Len(caches)
       /\ \A c \in 1 .. Len(caches) : caches'[c] = caches[c]
       /\ \A c \in 1 .. Len(caches') :
              /\ caches'[c].config.Driver \in DOMAIN drivers'
              /\ caches'[c].driver = drivers'[caches'[c].config.Driver]
      ]_vars

\* C6 witness: a facade built on a driver registered at run time keeps that
\* driver while a New of an unregistered name panics
C6_Witness ==
    /\ Len(caches) >= 1
    /\ caches[1].config.Driver = "redis" /\ caches[1].driver # MemoryDriver
    /\ last.op = "New" /\ last.key = "file" /\ last.err # NoPanic

\* C7: a Remove(k) that follows a Remove(k), and a Clear() that follows a
\* Clear(), leave the store as the first left it; Remove(k) of an absent key
\* changes nothing and raises nothing.
C7_RemoveClearIdempotent ==
    [][/\ ( /\ last.op = "Remove" /\ last'.op = "Remove"
            /\ last'.key = last.key /\ last'.driver = last.driver )
             => store' = store
       /\ ( last.op = "Clear" /\ last'.op = "Clear" /\ last'.driver = last.driver )
             => store' = store
       /\ ( last'.op = "Remove" /\ last'.key \notin DOMAIN store[last'.driver] )
             => ( store' = store /\ last'.err = NoPanic )
       /\ \A d \in DOMAIN store', k \in Keys :
             /\ MemRemove(MemRemove(store'[d], k), k) = MemRemove(store'[d], k)
             /\ MemClear(MemClear(store'[d])) = MemClear(store'[d])
      ]_vars

\* C7 witness: Remove has run on a key that was absent, the other key holding
\* an entry that is still there
C7_Witness ==
    /\ last.op = "Remove" /\ last.key = "a" /\ ~last.hit /\ last.err = NoPanic
    /\ DOMAIN store[MemoryDriver] = {"b"}

\* C8: after Clear() the store has no entry, Get(k) is (nil, false) for every
\* k, and the store stays empty across every step that is not a Put,
\* PutForever, Remember or RememberForever on that driver.
C8_ClearEmpties ==
    [][\A d \in DOMAIN store :
          /\ ( last'.op = "Clear" /\ last'.driver = d )
                => /\ DOMAIN store'[d] = {}
                   /\ \A k \in Keys : CacheGet(store'[d], k) = <<NilVal, FALSE>>
          /\ ( DOMAIN store[d] = {} /\ ~(last'.op \in WriteOps /\ last'.driver = d) )
                => DOMAIN store'[d] = {}
      ]_vars

\* C8 witness: Clear has run on a store that held entries and left none
C8_Witness ==
    /\ last.op = "Clear" /\ last.hit /\ DOMAIN store[MemoryDriver] = {}
    /\ \A k \in Keys : CacheGet(store[MemoryDriver], k) = <<NilVal, FALSE>>

\* C9: in the state a Put(k, v, ttl) or PutForever(k, v) leaves (the clock
\* still at the value the Put read), the entry of k is exactly (v, 0) when
\* ttl <= 0 and (v, now + ttl) when ttl > 0, the sum being Go's int64 sum,
\* whatever entry k had before.
C9_PutReplacesWholesale ==
    last.op \in {"Put", "PutForever"} =>
        /\ last.key \in DOMAIN store[last.driver]
        /\ store[last.driver][last.key] =
              MemoryCacheItem(last.val,
                              IF last.duration <= 0 THEN 0
                              ELSE AddInt64(now, last.duration))

\* C9 witness: a Put with a positive ttl has overwritten the entry of "a" while
\* "b" holds an entry without expiry
C9_Witness ==
    /\ last.op = "Put" /\ last.key = "a" /\ last.hit /\ last.duration = 1
    /\ now = MaxNow
    /\ store[MemoryDriver]["a"] = MemoryCacheItem(StrVal("x"), MaxNow + 1)
    /\ HoldsForever(MemoryDriver, "b", NilVal)

\* C10: the entry a Put or a missing Remember has just written has expiresAt 0
\* or greater than the clock the write read, for every int64 duration.
C10_ExpiresAfterWrite ==
    ( last.op \in {"Put", "PutForever"} \/ (last.op \in RememberOps /\ last.calls = 1) )
        => LET e == store[last.driver][last.key].expiresAt
           IN  e = 0 \/ e > now


ReadOps == {"Get", "GetString", "GetInt"}
KeyOps == {"Put", "PutForever", "Remove"} \cup PullOps \cup RememberOps

\* C18: Get, GetString and GetInt leave every store as it was; Put, PutForever,
\* Remove, the Pull-variants and Remember on key k leave the entry (value and
\* expiresAt) of every other key, and every other driver's store, as it was;
\* and no call on a facade changes the registry.
C18_Frame ==
    [][/\ last'.op \in ReadOps => store' = store
       /\ last'.op \in KeyOps =>
             \A d \in DOMAIN store :
                 /\ d # last'.driver => store'[d] = store[d]
                 /\ \A o \in Keys \ {last'.key} :
                        /\ o \in DOMAIN store'[d] <=> o \in DOMAIN store[d]
                        /\ o \in DOMAIN store[d] => store'[d][o] = store[d][o]
       /\ last'.op \in ReadOps \cup KeyOps \cup {"Clear"} => drivers' = drivers
      ]_vars

\* C18 witness: Remove has deleted "a" and the entry of "b", written with a
\* positive ttl, is still there
C18_Witness ==
    /\ last.op = "Remove" /\ last.key = "a" /\ last.hit
    /\ DOMAIN store[MemoryDriver] = {"b"}
    /\ store[MemoryDriver]["b"] = MemoryCacheItem(StrVal("x"), 2)


\* C20: presence is the existence of an entry. After Put(k, nil, ttl), Get(k)
\* is (nil, true), which is not the miss (nil, false); a Remember whose
\* compute returned nil has stored nil under k; and a Remember of a key that
\* holds nil returns nil without invoking compute.
C20_NilIsPresent ==
    LET d == last.driver
        k == last.key
    IN  /\ ( last.op \in {"Put", "PutForever"} /\ last.val = NilVal )
              => /\ CacheGet(store[d], k) = <<NilVal, TRUE>>
                 /\ CacheGet(store[d], k) # CacheGet(EmptyStore, k)
        /\ ( last.op \in RememberOps /\ last.calls = 1 /\ last.val = NilVal )
              => /\ k \in DOMAIN store[d]
                 /\ store[d][k].value = NilVal
                 /\ CacheGet(store[d], k) = <<NilVal, TRUE>>
        /\ ( /\ last.op \in RememberOps /\ last.hit
             /\ k \in DOMAIN store[d] /\ store[d][k].value = NilVal )
              => ( last.calls = 0 /\ last.val = NilVal )

\* C20 witness: a Remember found nil stored under its key and returned it
\* without computing
C20_Witness ==
    /\ last.op = "Remember" /\ last.key = "a" /\ last.hit /\ last.calls = 0
    /\ last.val = NilVal
    /\ "a" \in DOMAIN store[MemoryDriver]
    /\ store[MemoryDriver]["a"].value = NilVal


\* C17: facades built with the same driver name hold the same driver instance,
\* the one the registry holds under that name ("memory": the pre-registered
\* instance), so what PutForever, Remove, Pull or Clear through one of them
\* leaves is what Get through every other one reads; the store of every other
\* instance is left as it was; and a Get returns what the shared store holds.
C17_SharedDriver ==
    [][/\ \A c1, c2 \in 1 .. Len(caches') :
             /\ caches'[c1].driver = drivers'[caches'[c1].config.Driver]
             /\ caches'[c1].config.Driver = "memory" => caches'[c1].driver = MemoryDriver
             /\ caches'[c1].config.Driver = caches'[c2].config.Driver
                   => caches'[c1].driver = caches'[c2].driver
       /\ last'.op \in {"PutForever", "Remove", "Pull", "Clear"} =>
             /\ \A d \in DOMAIN store : d # last'.driver => store'[d] = store[d]
             /\ \A c1, c2 \in 1 .. Len(caches) :
                    ( /\ caches[c1].driver = last'.driver
                      /\ caches[c2].config.Driver = caches[c1].config.Driver )
                       => \A k \in Keys :
                             CacheGet(store'[caches[c2].driver], k) =
                                 IF last'.op = "Clear" THEN <<NilVal, FALSE>>
                                 ELSE IF k # last'.key
                                      THEN CacheGet(store[caches[c1].driver], k)
                                 ELSE IF last'.op = "PutForever" THEN <<last'.val, TRUE>>
                                 ELSE <<NilVal, FALSE>>
       /\ last'.op = "Get" =>
             <<last'.val, last'.ok>> = CacheGet(store[last'.driver], last'.key)
      ]_vars

\* C17 witness: two facades built with "memory" hold the pre-registered
\* instance, whose store holds an entry that Get returns, while the store of
\* the instance registered under "redis" by another NewMemoryCache() is empty
C17_Witness ==
    /\ Len(caches) = 2
    /\ caches[1].config.Driver = "memory" /\ caches[2].config.Driver = "memory"
    /\ caches[1].driver = MemoryDriver /\ caches[2].driver = MemoryDriver
    /\ "redis" \in DOMAIN drivers /\ drivers["redis"] = 2
    /\ last.op = "Get" /\ last.key = "a" /\ last.ok /\ last.val = StrVal("x")
    /\ "a" \in DOMAIN store[MemoryDriver]
    /\ store[2] = EmptyStore


\* thread t is between m.Lock() and m.Unlock()
InCritical(t) == AtPc(t, "write") \/ AtPc(t, "unlock")

\* C12: at most one thread is between Lock and Unlock; a thread is there
\* exactly when it holds the lock, so the lock is released once the mutation
\* is done; and every step that changes the store is taken by the thread
\* that holds the lock, between its Lock and its Unlock.
C12_WritersExclusive ==
    [][/\ Cardinality({t \in Threads : InCritical(t)'}) <= 1
       /\ \A t \in Threads : InCritical(t)' <=> lock' = t
       /\ store' # store =>
             \E t \in Threads : lock = t /\ lock' = t /\ AtPc(t, "write")
      ]_vars

\* C12 witness: thread 1 has written under the lock and still holds it while
\* thread 2 waits in Lock
C12_Witness ==
    /\ lock = 1 /\ AtPc(1, "unlock") /\ Top(1).op = "Put"
    /\ AtPc(2, "lock") /\ Top(2).op = "Clear"
    /\ "a" \in DOMAIN TheStore


\* C13: Get takes no lock: a thread about to read the store can read it in
\* every state of a running process, whichever thread holds the lock, so its
\* read can fall between another thread's Lock and Unlock.
C13_GetTakesNoLock ==
    \A t \in Threads : ( AtPc(t, "get") /\ ~crashed ) => ENABLED Read(t)

\* C13 witness: thread 1's Get has read the store while thread 2 was, and
\* still is, between the Lock and the Unlock of a Put
C13_Witness ==
    /\ AtPc(1, "ret") /\ Top(1).op = "Get" /\ Top(1).raced
    /\ lock = 2 /\ AtPc(2, "write") /\ Top(2).op = "Put"


\* a step of the call thread t is running
Proceeds(t) ==
    \/ Read(t) \/ Lock(t) \/ Write(t) \/ Unlock(t) \/ Return(t)
    \/ \E computed \in ThreadValues : CbReturn(t, computed)

\* C14: every started operation can complete: in every reachable state in
\* which calls are running some running call can take its next step, and
\* the thread that holds the lock can always go on to release it, so no
\* state has all threads blocked or the lock held forever.
C14_CallsComplete ==
    /\ (\E t \in Threads : Depth(t) > 0) =>
          \E t \in Threads : Depth(t) > 0 /\ ENABLED Proceeds(t)
    /\ \A t \in Threads : lock = t => ENABLED (Write(t) \/ Unlock(t))


\* C15: Remember holds no lock while its callback runs: the lock is held only
\* by the innermost call, inside its own Lock .. Unlock, so a call made by
\* the callback on the same cache always has a next step; and a Remember that
\* missed returns with its own Put's value stored under its key, whatever
\* the callback stored there.
C15_CallbackMayCallCache ==
    \A t \in Threads :
        /\ AtPc(t, "cb") => lock # t
        /\ lock = t => Top(t).pc \in {"write", "unlock"}
        /\ Depth(t) > 0 => ENABLED Proceeds(t)
        /\ ( AtPc(t, "ret") /\ Top(t).op = "Remember" /\ ~Top(t).ok ) =>
              /\ Top(t).calls = 1
              /\ Top(t).val = Top(t).data
              /\ Top(t).key \in DOMAIN TheStore
              /\ TheStore[Top(t).key].value = Top(t).val

\* C15 witness: Remember("a") is about to return "x" after its callback
\* stored 7 under "a"; the store holds "x"
C15_Witness ==
    /\ Depth(1) = 1 /\ AtPc(1, "ret")
    /\ Top(1).op = "Remember" /\ Top(1).key = "a" /\ ~Top(1).ok
    /\ Top(1).inner = IntVal(7)
    /\ Top(1).val = StrVal("x")
    /\ TheStore["a"].value = StrVal("x")


\* C16: a Remember call runs its callback at most once: not at all when its
\* Get hit, once when it missed, and then it returns what the callback
\* returned; and nothing de-duplicates concurrent calls: a Remember that
\* missed can run its callback whatever the other threads are doing.
C16_RememberNotDeduplicated ==
    \A t \in Threads : ( Depth(t) > 0 /\ Top(t).op = "Remember" ) =>
        /\ Top(t).calls <= 1
        /\ Top(t).pc \in {"get", "cb"} => Top(t).calls = 0
        /\ Top(t).pc \in {"lock", "write", "unlock"} => Top(t).calls = 1
        /\ Top(t).pc = "ret" =>
              IF Top(t).ok THEN Top(t).calls = 0
              ELSE Top(t).calls = 1 /\ Top(t).val = Top(t).data
        /\ ( Top(t).pc = "cb" /\ ~crashed ) =>
              \A computed \in ThreadValues : ENABLED CbReturn(t, computed)

\* C16 witness: both threads' Remember("a") missed, ran their callbacks and
\* stored the results; thread 2's Put came last, so thread 1 is about to
\* return 7 while the store holds "x", which thread 2 returns
C16_Witness ==
    /\ \A t \in {1, 2} :
          /\ AtPc(t, "ret") /\ Top(t).op = "Remember" /\ Top(t).key = "a"
          /\ ~Top(t).ok /\ Top(t).calls = 1
    /\ Top(1).val = IntVal(7)
    /\ Top(2).val = StrVal("x")
    /\ TheStore["a"].value = StrVal("x")


\* C19: Pull is a Get followed by a separate Remove: it holds the lock only
\* inside the Remove, which deletes whatever is stored by then; so while one
\* thread's Pull is between its Get and its Remove another thread's Pull can
\* get the same stored value, and another thread's Put can take the lock.
C19_PullNotAtomic ==
    \A t \in Threads : ( Depth(t) > 0 /\ Top(t).op = "Pull" ) =>
        /\ Top(t).pc \in {"get", "lock", "ret"} => lock # t
        /\ Top(t).pc = "unlock" => Top(t).key \notin DOMAIN TheStore
        /\ \A u \in Threads \ {t} :
              /\ ( /\ ~crashed
                   /\ Top(t).pc = "lock" /\ Top(t).ok
                   /\ MemGet(TheStore, Top(t).key) = <<Top(t).val, TRUE>>
                   /\ AtPc(u, "get") /\ Top(u).op = "Pull" /\ Top(u).key = Top(t).key
                 ) => ENABLED ( /\ Read(u)
                                /\ stack'[u][1].ok
                                /\ stack'[u][1].val = Top(t).val )
              /\ ( /\ ~crashed
                   /\ Top(t).pc = "lock" /\ lock = NoThread
                   /\ AtPc(u, "lock") /\ Top(u).op = "Put"
                 ) => ENABLED Lock(u)

\* C19 witness: after the single Put("a", 7, 0) both threads' Pull("a") got
\* (7, true); thread 1 removed and returned, then stored "x"; thread 2's
\* Remove deleted "x", and thread 2 is about to return (7, true)
C19_Witness ==
    /\ Depth(1) = 0
    /\ AtPc(2, "ret") /\ Top(2).op = "Pull"
    /\ Top(2).ok /\ Top(2).val = PulledValue
    /\ Top(2).dup /\ Top(2).lost
    /\ "a" \notin DOMAIN TheStore

====
